---- MODULE Spec2Model ----
(***************************************************************************)
(* rspc, src/internal/resolver_result.rs: the SealedRequestLayer impls     *)
(* that turn a resolver's return value into a stream of                    *)
(* Result<Value, ExecError>, and the MapStream / FutureMapStream adapters. *)
(* One adapter instance is modelled together with the future / stream it   *)
(* owns and the consumer that pulls from it.                               *)
(***************************************************************************)
EXTENDS Integers, Sequences, FiniteSets, TLC

\* ------------------------------------------------------------------ bounds
MaxLen == 4        \* longest list of items the underlying stream emits
MaxPulls == 6      \* number of consumer pulls explored
MaxPending == 2    \* Pending answers before the future / stream makes progress

\* ------------------------------------------------------- values and errors
\* Values a resolver can produce; "nan" has no JSON representation.
Values == {"a", "b", "nan"}
Unserializable == {"nan"}
\* Values of crate::Error a resolver can fail with.
Errors == {"e1", "e2"}
\* What a stream that is polled again after it ended may still produce.
LateItem == "a"

\* Option::None for a slot that holds a Result / ExecError.
NoItem == [tag |-> "None", kind |-> "None", v |-> "-"]
\* Ok(serde_json::Value)
OkValue(v) == [tag |-> "Ok", kind |-> "Value", v |-> v]
\* ExecError::ErrResolverError(e)
ErrResolverError(e) == [tag |-> "Err", kind |-> "ErrResolverError", v |-> e]
\* ExecError::SerializingResultErr(cause)
SerializingResultErr == [tag |-> "Err", kind |-> "SerializingResultErr", v |-> "-"]

\* serde_json::to_value(v).map_err(ExecError::SerializingResultErr)
ToValue(v) == IF v \in Unserializable THEN SerializingResultErr ELSE OkValue(v)

\* Poll<Option<Result<Value, ExecError>>> as seen by the consumer.
Pending == [poll |-> "Pending", item |-> NoItem]
ReadyNone == [poll |-> "None", item |-> NoItem]
ReadySome(x) == [poll |-> "Some", item |-> x]

\* Poll<Option<T>> of the underlying stream, Poll<Output> of the future.
UPending == [poll |-> "Pending", v |-> "-"]
UNone == [poll |-> "None", v |-> "-"]
USome(v) == [poll |-> "Some", v |-> v]
FPending == "Pending"
FReady == "Ready"

\* ------------------------------------------------------------------ shapes
SerializeMarker == "SerializeMarker"
ResultMarker == "ResultMarker"
FutureSerializeMarker == "FutureSerializeMarker"
FutureResultMarker == "FutureResultMarker"
StreamMarker == "StreamMarker"
ResultStreamMarker == "ResultStreamMarker"
FutureStreamMarker == "FutureStreamMarker"
FutureResultStreamMarker == "FutureResultStreamMarker"

Markers == {SerializeMarker, ResultMarker, FutureSerializeMarker, FutureResultMarker,
            StreamMarker, ResultStreamMarker, FutureStreamMarker, FutureResultStreamMarker}
OnceReadyMarkers == {SerializeMarker, ResultMarker}
OnceFutureMarkers == {FutureSerializeMarker, FutureResultMarker}
MapStreamMarkers == {StreamMarker, ResultStreamMarker}
FutureMapStreamMarkers == {FutureStreamMarker, FutureResultStreamMarker}
\* Shapes whose return value (or future output) is a Result<_, Error>.
FallibleMarkers == {ResultMarker, FutureResultMarker, ResultStreamMarker, FutureResultStreamMarker}
\* Shapes that carry a stream of items.
StreamShapes == MapStreamMarkers \cup FutureMapStreamMarkers

\* All item lists of length at most n.
SeqsUpTo(n) == UNION {[1 .. k -> Values] : k \in 0 .. n}

\* The return values of a resolver of the given shape: ok says whether a
\* Result is Ok, v is the value, e the error, items what the stream emits.
Returns(m) ==
    {r \in [ok : IF m \in FallibleMarkers THEN BOOLEAN ELSE {TRUE},
            v : IF m \in StreamShapes THEN {"-"} ELSE Values,
            e : IF m \in FallibleMarkers THEN Errors ELSE {"-"},
            items : IF m \in StreamShapes THEN SeqsUpTo(MaxLen) ELSE {<<>>}] :
        /\ r.ok => r.e = "-" \/ r.e = CHOOSE x \in Errors : TRUE
        /\ ~r.ok => r.items = <<>> /\ (r.v = "-" \/ r.v = CHOOSE x \in Values : TRUE)}

\* ------------------------------------------------------------ return types
\* A return type is described by what the where-clauses test.  What a
\* Result<X, Error> holds, X: whether X: Serialize + Type, and whether X is a
\* Stream, of items that are Serialize + Type ("items") or not ("opaque").
StreamCaps == {"no", "items", "opaque"}
Payloads == [ser : BOOLEAN, str : StreamCaps]
NoPayload == [ser |-> FALSE, str |-> "no"]
\* The Output of a Future: serializable, a Stream, or a Result<X, Error>
\* (which is no Stream) holding `of`.
Outputs ==
    {o \in [ser : BOOLEAN, str : StreamCaps, res : BOOLEAN, of : Payloads] :
        /\ o.res => o.str = "no"
        /\ ~o.res => o.of = NoPayload}
NoOutput == [ser |-> FALSE, str |-> "no", res |-> FALSE, of |-> NoPayload]
\* A handler's return type: serializable, a Stream, a Future with Output
\* `out`, or a Result<X, Error> (no Future, no Stream) holding `of`.
ReturnTypes ==
    {t \in [ser : BOOLEAN, str : StreamCaps, res : BOOLEAN, of : Payloads,
            fut : BOOLEAN, out : Outputs] :
        /\ t.res => (t.str = "no" /\ ~t.fut)
        /\ ~t.res => t.of = NoPayload
        /\ ~t.fut => t.out = NoOutput}

\* The where-clauses of the eight impls (Send, Sync and 'static taken to hold).
\* T: Serialize + Type
WhereSerialize(t) == t.ser
\* Result<T, Error>, T: Serialize + Type
WhereResult(t) == t.res /\ t.of.ser
\* WhereFutureSerialize without the bound on the future's Output.
WhereFutureSerialize_AnyOutput(t) == t.fut
\* TFut: Future<Output = T>, T: Serialize + Type
WhereFutureSerialize(t) == t.fut /\ t.out.ser
\* TFut: Future<Output = Result<T, Error>>, T: Serialize + Type
WhereFutureResult(t) == t.fut /\ t.out.res /\ t.out.of.ser
\* TStream: Stream<Item = T>, T: Serialize + Type
WhereStream(t) == t.str = "items"
\* Result<TStream, Error>, TStream: Stream<Item = T>, T: Serialize + Type
WhereResultStream(t) == t.res /\ t.of.str = "items"
\* TFut: Future<Output = TStream>, TStream: Stream<Item = T>, T: Serialize + Type
WhereFutureStream(t) == t.fut /\ t.out.str = "items"
\* TFut: Future<Output = Result<TStream, Error>>, TStream: Stream<Item = T>
WhereFutureResultStream(t) == t.fut /\ t.out.res /\ t.out.of.str = "items"

\* The impls whose where-clause the return type satisfies.
Impls(t) ==
    {m \in Markers :
        CASE m = SerializeMarker -> WhereSerialize(t)
          [] m = ResultMarker -> WhereResult(t)
          [] m = FutureSerializeMarker -> WhereFutureSerialize(t)
          [] m = FutureResultMarker -> WhereFutureResult(t)
          [] m = StreamMarker -> WhereStream(t)
          [] m = ResultStreamMarker -> WhereResultStream(t)
          [] m = FutureStreamMarker -> WhereFutureStream(t)
          [] OTHER -> WhereFutureResultStream(t)}

\* The two marker types for the associated `type Type`.
StreamMarkerType == "StreamMarkerType"
FutureMarkerType == "FutureMarkerType"

\* `type Type = ...;` of each impl.
TypeTag(m) ==
    CASE m \in {SerializeMarker, ResultMarker, FutureSerializeMarker, FutureResultMarker} ->
            FutureMarkerType
      [] m = StreamMarker -> StreamMarkerType
      [] OTHER -> StreamMarker

\* The impls a return type satisfies, each with its Type tag.
Selected(t) == [m \in Impls(t) |-> TypeTag(m)]

\* The return types of spec section 6, one per shape: V, Result<V, Error>,
\* Future<Output = V>, ..., with V serializable and nothing else.
PlainValue == [ser |-> TRUE, str |-> "no"]
PlainStream == [ser |-> FALSE, str |-> "items"]
Plain(p) == [ser |-> p.ser, str |-> p.str, res |-> FALSE, of |-> NoPayload]
ResultOf(p) == [ser |-> FALSE, str |-> "no", res |-> TRUE, of |-> p]
NotFuture(o) == [ser |-> o.ser, str |-> o.str, res |-> o.res, of |-> o.of,
                 fut |-> FALSE, out |-> NoOutput]
FutureOf(o) == [ser |-> FALSE, str |-> "no", res |-> FALSE, of |-> NoPayload,
                fut |-> TRUE, out |-> o]
ShapeType(m) ==
    CASE m = SerializeMarker -> NotFuture(Plain(PlainValue))
      [] m = ResultMarker -> NotFuture(ResultOf(PlainValue))
      [] m = FutureSerializeMarker -> FutureOf(Plain(PlainValue))
      [] m = FutureResultMarker -> FutureOf(ResultOf(PlainValue))
      [] m = StreamMarker -> NotFuture(Plain(PlainStream))
      [] m = ResultStreamMarker -> NotFuture(ResultOf(PlainStream))
      [] m = FutureStreamMarker -> FutureOf(Plain(PlainStream))
      [] OTHER -> FutureOf(ResultOf(PlainStream))

\* --------------------------------------------------------------- variables
VARIABLES
    marker,     \* which SealedRequestLayer impl the return type selected
    ret,        \* the resolver's return value
    fused,      \* whether the underlying stream keeps returning None once ended
    pc,         \* "returned" (exec not called), "stream" (adapter live), "dropped"
    ad,         \* the adapter: [err, fut, stream, ready]
    futDone,    \* the underlying future has returned Ready
    pos,        \* number of items the underlying stream has emitted
    ended,      \* the underlying stream has returned Ready(None)
    futPolls,   \* polls of the underlying future so far
    strPolls,   \* polls of the underlying stream so far
    serCalls,   \* calls of serde_json::to_value so far
    hist,       \* one entry per consumer pull: its result, the polls and to_value
                \* calls made within it, whether the future resolved in it
    rtype,      \* the handler's return type, as the capabilities it has
    sel         \* the impls the return type satisfies, each with its Type tag

vars == <<marker, ret, fused, pc, ad, futDone, pos, ended, futPolls, strPolls, serCalls, hist,
          rtype, sel>>

\* The adapter before exec has built anything.
NoAdapter == [err |-> NoItem, fut |-> FALSE, stream |-> FALSE, ready |-> NoItem]

\* ------------------------------------------------------------------- exec
\* Each exec returns the adapter it builds and the number of to_value calls.

\* impl SealedRequestLayer<SerializeMarker>: once(ready(to_value(self)))
ExecSerialize(r) ==
    [ad |-> [err |-> NoItem, fut |-> TRUE, stream |-> FALSE, ready |-> ToValue(r.v)],
     ser |-> 1]

\* ExecResult serializing the value whatever the Result is.
ExecResult_IgnoreErr(r) ==
    [ad |-> [err |-> NoItem, fut |-> TRUE, stream |-> FALSE, ready |-> ToValue(r.v)],
     ser |-> 1]

\* impl SealedRequestLayer<ResultMarker>:
\* once(ready(self.map_err(ErrResolverError).and_then(to_value)))
ExecResult(r) ==
    [ad |-> [err |-> NoItem, fut |-> TRUE, stream |-> FALSE,
             ready |-> IF r.ok THEN ToValue(r.v) ELSE ErrResolverError(r.e)],
     ser |-> IF r.ok THEN 1 ELSE 0]

\* impl SealedRequestLayer<FutureSerializeMarker>: once(FutureSerializeFuture(self))
ExecFutureSerialize(r) ==
    [ad |-> [err |-> NoItem, fut |-> TRUE, stream |-> FALSE, ready |-> NoItem],
     ser |-> 0]

\* impl SealedRequestLayer<FutureResultMarker>: once(FutureSerializeResultFuture(self))
ExecFutureResult(r) ==
    [ad |-> [err |-> NoItem, fut |-> TRUE, stream |-> FALSE, ready |-> NoItem],
     ser |-> 0]

\* impl SealedRequestLayer<StreamMarker>: MapStream(None, Some(self), to_value)
ExecStream(r) ==
    [ad |-> [err |-> NoItem, fut |-> FALSE, stream |-> TRUE, ready |-> NoItem],
     ser |-> 0]

\* impl SealedRequestLayer<ResultStreamMarker>: Ok(v) => (None, Some(v)),
\* Err(err) => (Some(ErrResolverError(err)), None)
ExecResultStream(r) ==
    [ad |-> IF r.ok
            THEN [err |-> NoItem, fut |-> FALSE, stream |-> TRUE, ready |-> NoItem]
            ELSE [err |-> ErrResolverError(r.e), fut |-> FALSE, stream |-> FALSE,
                  ready |-> NoItem],
     ser |-> 0]

\* impl SealedRequestLayer<FutureStreamMarker>:
\* FutureMapStream(None, Some(self), None, |s| Ok(s), to_value)
ExecFutureStream(r) ==
    [ad |-> [err |-> NoItem, fut |-> TRUE, stream |-> FALSE, ready |-> NoItem],
     ser |-> 0]

\* impl SealedRequestLayer<FutureResultStreamMarker>:
\* FutureMapStream(None, Some(self), None, |s| s.map_err(ErrResolverError), to_value)
ExecFutureResultStream(r) ==
    [ad |-> [err |-> NoItem, fut |-> TRUE, stream |-> FALSE, ready |-> NoItem],
     ser |-> 0]

\* ------------------------------------------- the underlying future / stream
\* What a poll of the underlying future can return (TFut: Future).
FutureOutcomes == {FPending, FReady}

\* What a poll of the underlying stream can return (TStream: Stream): the
\* next item or Pending; Ready(None) once the items are used up; and, when
\* it is polled again after Ready(None), None if it is fused and otherwise
\* whatever the stream pleases (the Stream trait leaves it open).
StreamOutcomes ==
    IF ended
    THEN IF fused THEN {UNone} ELSE {UPending, UNone, USome(LateItem)}
    ELSE {UPending} \cup (IF pos < Len(ret.items) THEN {USome(ret.items[pos + 1])}
                                                 ELSE {UNone})

\* -------------------------------------------------------------- size_hint
\* (lower, Some(upper)) and (lower, None) of Stream::size_hint.
Hint(lo, hi) == [lo |-> lo, some |-> TRUE, hi |-> hi]
HintNoUpper(lo) == [lo |-> lo, some |-> FALSE, hi |-> 0]

\* The items the underlying stream has yet to emit.
StreamRemaining == Len(ret.items) - pos

\* What s.size_hint() of the underlying stream may report when it is sound:
\* any lower bound up to, and any or no upper bound from, what is left.
StreamSizeHints ==
    {Hint(lo, hi) : lo \in 0 .. StreamRemaining, hi \in StreamRemaining .. MaxLen}
    \cup {HintNoUpper(lo) : lo \in 0 .. StreamRemaining}

\* MapStream::size_hint, the stream answering h
MapStreamSizeHint(a, h) == IF a.stream THEN h ELSE Hint(0, 0)

\* FutureMapStream::size_hint, the stream answering h
FutureMapStreamSizeHint(a, h) ==
    IF a.fut THEN HintNoUpper(0)
    ELSE IF a.stream THEN h ELSE Hint(0, 0)

\* ------------------------------------------------------------------- polls
\* A poll function returns the adapter after the poll, the Poll it returns,
\* and how often it polled the underlying future (fp), the underlying
\* stream (sp) and called to_value (ser).
Out(a, res, fp, sp, ser) == [ad |-> a, res |-> res, fp |-> fp, sp |-> sp, ser |-> ser]

\* std::future::Ready::poll: hands out the stored value.
ReadyPoll(a) == [poll |-> FReady, out |-> a.ready, fp |-> 0, ser |-> 0]

\* FutureSerializeFuture::poll
FutureSerializeFuturePoll(r, fpoll) ==
    IF fpoll = FReady
    THEN [poll |-> FReady, out |-> ToValue(r.v), fp |-> 1, ser |-> 1]
    ELSE [poll |-> FPending, out |-> NoItem, fp |-> 1, ser |-> 0]

\* FutureSerializeResultFuturePoll without the map_err / and_then on the output.
FutureSerializeResultFuturePoll_IgnoreErr(r, fpoll) ==
    IF fpoll = FReady
    THEN [poll |-> FReady, out |-> ToValue(r.v), fp |-> 1, ser |-> 1]
    ELSE [poll |-> FPending, out |-> NoItem, fp |-> 1, ser |-> 0]

\* FutureSerializeResultFuture::poll
FutureSerializeResultFuturePoll(r, fpoll) ==
    IF fpoll = FReady
    THEN IF r.ok
         THEN [poll |-> FReady, out |-> ToValue(r.v), fp |-> 1, ser |-> 1]
         ELSE [poll |-> FReady, out |-> ErrResolverError(r.e), fp |-> 1, ser |-> 0]
    ELSE [poll |-> FPending, out |-> NoItem, fp |-> 1, ser |-> 0]

\* The future a Once of the given shape wraps, polled.
InnerPoll(m, a, r, fpoll) ==
    CASE m \in OnceReadyMarkers -> ReadyPoll(a)
      [] m = FutureSerializeMarker -> FutureSerializeFuturePoll(r, fpoll)
      [] OTHER -> FutureSerializeResultFuturePoll(r, fpoll)

\* futures::stream::Once::poll_next: polls the future while it holds one,
\* yields its output once and drops it; afterwards Ready(None).
OncePollNext(m, a, r, fpoll) ==
    IF a.fut
    THEN LET i == InnerPoll(m, a, r, fpoll) IN
         IF i.poll = FPending
         THEN Out(a, Pending, i.fp, 0, i.ser)
         ELSE Out([a EXCEPT !.fut = FALSE, !.ready = NoItem],
                  ReadySome(i.out), i.fp, 0, i.ser)
    ELSE Out(a, ReadyNone, 0, 0, 0)

\* MapStreamForward taking a stream that is not ready for one that ended.
MapStreamForward_PendingEnds(a, spoll) ==
    IF a.stream
    THEN CASE spoll.poll = "Pending" -> Out(a, ReadyNone, 0, 1, 0)
           [] spoll.poll = "None" -> Out(a, ReadyNone, 0, 1, 0)
           [] OTHER -> Out(a, ReadySome(ToValue(spoll.v)), 0, 1, 1)
    ELSE Out(a, ReadyNone, 0, 0, 0)

\* MapStreamForward answering Pending when the stream has ended.
MapStreamForward_NeverEnds(a, spoll) ==
    IF a.stream
    THEN CASE spoll.poll = "Pending" -> Out(a, Pending, 0, 1, 0)
           [] spoll.poll = "None" -> Out(a, Pending, 0, 1, 0)
           [] OTHER -> Out(a, ReadySome(ToValue(spoll.v)), 0, 1, 1)
    ELSE Out(a, ReadyNone, 0, 0, 0)

\* MapStream::poll_next, `match this.1.project()`: forwards the pull to the
\* stream while the slot holds one.
MapStreamForward(a, spoll) ==
    IF a.stream
    THEN CASE spoll.poll = "Pending" -> Out(a, Pending, 0, 1, 0)
           [] spoll.poll = "None" -> Out(a, ReadyNone, 0, 1, 0)
           [] OTHER -> Out(a, ReadySome(ToValue(spoll.v)), 0, 1, 1)
    ELSE Out(a, ReadyNone, 0, 0, 0)

\* MapStreamPollNext reading the error slot without take().
MapStreamPollNext_NoTake(a, spoll) ==
    IF a.err # NoItem
    THEN Out(a, ReadySome(a.err), 0, 0, 0)
    ELSE MapStreamForward(a, spoll)

\* MapStream::poll_next
MapStreamPollNext(a, spoll) ==
    IF a.err # NoItem
    THEN Out([a EXCEPT !.err = NoItem], ReadySome(a.err), 0, 0, 0)
    ELSE MapStreamForward(a, spoll)

\* MapFutureOutput with |s| Ok(s) for both shapes.
MapFutureOutput_AlwaysOk(m, r) == NoItem

\* The fn(F::Output) -> Result<S, ExecError> that exec stores in slot 3:
\* |s| Ok(s) for FutureStreamMarker, |s| s.map_err(ErrResolverError) for
\* FutureResultStreamMarker.  NoItem stands for Ok(stream).
MapFutureOutput(m, r) ==
    IF m = FutureResultStreamMarker /\ ~r.ok THEN ErrResolverError(r.e) ELSE NoItem

\* FutureMapStreamForward polling the stream a second time when it is not ready.
FutureMapStreamForward_Repoll(a, fp, spoll) ==
    IF a.stream
    THEN CASE spoll.poll = "Pending" -> Out(a, Pending, fp, 2, 0)
           [] spoll.poll = "None" -> Out(a, ReadyNone, fp, 1, 0)
           [] OTHER -> Out(a, ReadySome(ToValue(spoll.v)), fp, 1, 1)
    ELSE Out(a, ReadyNone, fp, 0, 0)

\* FutureMapStream::poll_next, `match this.2.project()`
FutureMapStreamForward(a, fp, spoll) ==
    IF a.stream
    THEN CASE spoll.poll = "Pending" -> Out(a, Pending, fp, 1, 0)
           [] spoll.poll = "None" -> Out(a, ReadyNone, fp, 1, 0)
           [] OTHER -> Out(a, ReadySome(ToValue(spoll.v)), fp, 1, 1)
    ELSE Out(a, ReadyNone, fp, 0, 0)

\* FutureMapStreamPollNext returning Pending on the pull that stores the stream.
FutureMapStreamPollNext_YieldOnResolve(m, a, r, fpoll, spoll) ==
    IF a.err # NoItem
    THEN Out([a EXCEPT !.err = NoItem], ReadySome(a.err), 0, 0, 0)
    ELSE IF a.fut
    THEN IF fpoll = FPending
         THEN Out(a, Pending, 1, 0, 0)
         ELSE LET a1 == [a EXCEPT !.fut = FALSE]
                  mapped == MapFutureOutput(m, r)
              IN IF mapped # NoItem
                 THEN Out(a1, ReadySome(mapped), 1, 0, 0)
                 ELSE Out([a1 EXCEPT !.stream = TRUE], Pending, 1, 0, 0)
    ELSE FutureMapStreamForward(a, 0, spoll)

\* FutureMapStreamPollNext without this.1.set(PinnedOption::None).
FutureMapStreamPollNext_KeepFuture(m, a, r, fpoll, spoll) ==
    IF a.err # NoItem
    THEN Out([a EXCEPT !.err = NoItem], ReadySome(a.err), 0, 0, 0)
    ELSE IF a.fut
    THEN IF fpoll = FPending
         THEN Out(a, Pending, 1, 0, 0)
         ELSE LET mapped == MapFutureOutput(m, r)
              IN IF mapped # NoItem
                 THEN Out(a, ReadySome(mapped), 1, 0, 0)
                 ELSE FutureMapStreamForward([a EXCEPT !.stream = TRUE], 1, spoll)
    ELSE FutureMapStreamForward(a, 0, spoll)

\* FutureMapStreamPollNext clearing the future slot whatever the poll returned.
FutureMapStreamPollNext_ClearOnPending(m, a, r, fpoll, spoll) ==
    IF a.err # NoItem
    THEN Out([a EXCEPT !.err = NoItem], ReadySome(a.err), 0, 0, 0)
    ELSE IF a.fut
    THEN LET a1 == [a EXCEPT !.fut = FALSE]
             mapped == MapFutureOutput(m, r)
         IN IF fpoll = FPending
            THEN Out(a1, Pending, 1, 0, 0)
            ELSE IF mapped # NoItem
                 THEN Out(a1, ReadySome(mapped), 1, 0, 0)
                 ELSE FutureMapStreamForward([a1 EXCEPT !.stream = TRUE], 1, spoll)
    ELSE FutureMapStreamForward(a, 0, spoll)

\* FutureMapStream::poll_next
FutureMapStreamPollNext(m, a, r, fpoll, spoll) ==
    IF a.err # NoItem
    THEN Out([a EXCEPT !.err = NoItem], ReadySome(a.err), 0, 0, 0)
    ELSE IF a.fut
    THEN IF fpoll = FPending
         THEN Out(a, Pending, 1, 0, 0)
         ELSE LET a1 == [a EXCEPT !.fut = FALSE]
                  mapped == MapFutureOutput(m, r)
              IN IF mapped # NoItem
                 THEN Out(a1, ReadySome(mapped), 1, 0, 0)
                 ELSE FutureMapStreamForward([a1 EXCEPT !.stream = TRUE], 1, spoll)
    ELSE FutureMapStreamForward(a, 0, spoll)

\* ----------------------------------------------------------------- actions
Init ==
    /\ marker \in Markers
    /\ ret \in Returns(marker)
    /\ fused \in BOOLEAN
    /\ pc = "returned"
    /\ ad = NoAdapter
    /\ futDone = FALSE
    /\ pos = 0
    /\ ended = FALSE
    /\ futPolls = 0
    /\ strPolls = 0
    /\ serCalls = 0
    /\ hist = <<>>
    /\ rtype = ShapeType(marker)
    /\ sel = Selected(rtype)

\* exec(self) for the impl the marker selects.
Exec(m, e) ==
    /\ pc = "returned"
    /\ marker = m
    /\ pc' = "stream"
    /\ ad' = e.ad
    /\ serCalls' = serCalls + e.ser
    /\ UNCHANGED <<marker, ret, fused, futDone, pos, ended, futPolls, strPolls, hist,
                   rtype, sel>>

DoExecSerialize == Exec(SerializeMarker, ExecSerialize(ret))
DoExecResult == Exec(ResultMarker, ExecResult(ret))
DoExecFutureSerialize == Exec(FutureSerializeMarker, ExecFutureSerialize(ret))
DoExecFutureResult == Exec(FutureResultMarker, ExecFutureResult(ret))
DoExecStream == Exec(StreamMarker, ExecStream(ret))
DoExecResultStream == Exec(ResultStreamMarker, ExecResultStream(ret))
DoExecFutureStream == Exec(FutureStreamMarker, ExecFutureStream(ret))
DoExecFutureResultStream == Exec(FutureResultStreamMarker, ExecFutureResultStream(ret))

\* One consumer pull: the adapter's poll function ran with the underlying
\* future answering fpoll and the underlying stream answering spoll.
Pull(o, fpoll, spoll) ==
    /\ ad' = o.ad
    /\ hist' = Append(hist, [res |-> o.res, fp |-> o.fp, sp |-> o.sp, ser |-> o.ser,
                             resolved |-> (o.fp > 0 /\ fpoll = FReady)])
    /\ futPolls' = futPolls + o.fp
    /\ strPolls' = strPolls + o.sp
    /\ serCalls' = serCalls + o.ser
    /\ futDone' = (futDone \/ (o.fp > 0 /\ fpoll = FReady))
    /\ pos' = IF o.sp > 0 /\ ~ended /\ spoll.poll = "Some" THEN pos + 1 ELSE pos
    /\ ended' = (ended \/ (o.sp > 0 /\ spoll.poll = "None"))
    /\ UNCHANGED <<marker, ret, fused, pc, rtype, sel>>

\* The consumer polls a Once<Ready<_>> (SerializeMarker, ResultMarker).
PollOnceReady ==
    /\ pc = "stream" /\ marker \in OnceReadyMarkers /\ Len(hist) < MaxPulls
    /\ Pull(OncePollNext(marker, ad, ret, FReady), FReady, UNone)

\* The consumer polls a Once<FutureSerializeFuture> / Once<FutureSerializeResultFuture>.
PollOnceFuture ==
    /\ pc = "stream" /\ marker \in OnceFutureMarkers /\ Len(hist) < MaxPulls
    /\ \E fpoll \in FutureOutcomes :
          Pull(OncePollNext(marker, ad, ret, fpoll), fpoll, UNone)

\* The consumer polls a MapStream.
PollMapStream ==
    /\ pc = "stream" /\ marker \in MapStreamMarkers /\ Len(hist) < MaxPulls
    /\ \E spoll \in StreamOutcomes :
          Pull(MapStreamPollNext(ad, spoll), FPending, spoll)

\* The consumer polls a FutureMapStream.
PollFutureMapStream ==
    /\ pc = "stream" /\ marker \in FutureMapStreamMarkers /\ Len(hist) < MaxPulls
    /\ \E fpoll \in FutureOutcomes, spoll \in StreamOutcomes :
          Pull(FutureMapStreamPollNext(marker, ad, ret, fpoll, spoll), fpoll, spoll)

\* The consumer stops pulling and drops the adapter, and with it the
\* future / stream the adapter owns.
Drop ==
    /\ pc = "stream"
    /\ pc' = "dropped"
    /\ ad' = NoAdapter
    /\ UNCHANGED <<marker, ret, fused, futDone, pos, ended, futPolls, strPolls,
                   serCalls, hist, rtype, sel>>

Next ==
    \/ DoExecSerialize
    \/ DoExecResult
    \/ DoExecFutureSerialize
    \/ DoExecFutureResult
    \/ DoExecStream
    \/ DoExecResultStream
    \/ DoExecFutureStream
    \/ DoExecFutureResultStream
    \/ PollOnceReady
    \/ PollOnceFuture
    \/ PollMapStream
    \/ PollFutureMapStream
    \/ Drop

Spec == Init /\ [][Next]_vars

\* ------------------------------------------- a consumer that keeps pulling
\* poll_next of the adapter the marker selected.
PollNextOf(fpoll, spoll) ==
    CASE marker \in OnceReadyMarkers \cup OnceFutureMarkers ->
            OncePollNext(marker, ad, ret, fpoll)
      [] marker \in MapStreamMarkers -> MapStreamPollNext(ad, spoll)
      [] OTHER -> FutureMapStreamPollNext(marker, ad, ret, fpoll, spoll)

\* The pulls so far that returned Pending, end-of-sequence.
PendingPulls == {i \in DOMAIN hist : hist[i].res = Pending}
EndPulls == {i \in DOMAIN hist : hist[i].res = ReadyNone}

\* A pull that returns Pending (pending = TRUE) or Ready (pending = FALSE).
LivePull(pending) ==
    /\ pc = "stream"
    /\ EndPulls = {}
    /\ \E fpoll \in FutureOutcomes, spoll \in StreamOutcomes :
          LET o == PollNextOf(fpoll, spoll) IN
          /\ (o.res = Pending) = pending
          /\ Pull(o, fpoll, spoll)

\* The consumer pulls and the adapter returns Ready.
LivePullReady == LivePull(FALSE)

\* The consumer pulls while the underlying future / stream is not ready.
LivePullPending == Cardinality(PendingPulls) < MaxPending /\ LivePull(TRUE)

LiveExec ==
    \/ DoExecSerialize
    \/ DoExecResult
    \/ DoExecFutureSerialize
    \/ DoExecFutureResult
    \/ DoExecStream
    \/ DoExecResultStream
    \/ DoExecFutureStream
    \/ DoExecFutureResultStream

LiveNext ==
    \/ LiveExec
    \/ LivePullReady
    \/ LivePullPending

\* exec is called, the consumer keeps pulling, and the underlying future /
\* stream is ready again after finitely many Pending.
LiveSpec == Init /\ [][LiveNext]_vars /\ WF_vars(LiveExec) /\ WF_vars(LivePullReady)

\* ---------------------------------------------------------- shape selection
\* A handler with some return type is declared; nothing is resolved yet.
SelInit ==
    /\ rtype \in ReturnTypes
    /\ sel = <<>>
    /\ marker = "-"
    /\ ret = [ok |-> TRUE, v |-> "-", e |-> "-", items |-> <<>>]
    /\ fused = TRUE
    /\ pc = "declared"
    /\ ad = NoAdapter
    /\ futDone = FALSE
    /\ pos = 0
    /\ ended = FALSE
    /\ futPolls = 0
    /\ strPolls = 0
    /\ serCalls = 0
    /\ hist = <<>>

\* The return type is matched against the impls: RequestLayer<TMarker> holds
\* for each TMarker whose where-clause it satisfies, and one of them is used.
SelResolve ==
    /\ pc = "declared"
    /\ \E m \in Impls(rtype) : marker' = m
    /\ sel' = Selected(rtype)
    /\ pc' = "resolved"
    /\ UNCHANGED <<ret, fused, ad, futDone, pos, ended, futPolls, strPolls, serCalls,
                   hist, rtype>>

\* The return type satisfies no where-clause: it is no RequestLayer.
SelReject ==
    /\ pc = "declared"
    /\ Impls(rtype) = {}
    /\ pc' = "rejected"
    /\ UNCHANGED <<marker, ret, fused, ad, futDone, pos, ended, futPolls, strPolls,
                   serCalls, hist, rtype, sel>>

SelNext ==
    \/ SelResolve
    \/ SelReject

SelSpec == SelInit /\ [][SelNext]_vars

\* ---------------------------------------------------------------- history
Pulls == DOMAIN hist
\* Pull i returned an item (Ok or Err), an Err item, a serialization failure.
IsItem(i) == hist[i].res.poll = "Some"
IsErr(i) == IsItem(i) /\ hist[i].res.item.tag = "Err"
IsSerErr(i) == IsItem(i) /\ hist[i].res.item = SerializingResultErr
IsEnd(i) == hist[i].res = ReadyNone
\* The items the consumer saw in pulls 1 .. n, in order.
RECURSIVE OutputUpTo(_)
OutputUpTo(n) ==
    IF n = 0 THEN <<>>
    ELSE IF IsItem(n) THEN Append(OutputUpTo(n - 1), hist[n].res.item)
    ELSE OutputUpTo(n - 1)
Output == OutputUpTo(Len(hist))
\* The pulls that returned end-of-sequence, and the first of them.
Ends == {i \in Pulls : IsEnd(i)}
FirstEnd == CHOOSE i \in Ends : \A j \in Ends : i <= j
\* The outcome the spec prescribes for a value v: Ok(serialize(v)), or
\* Err(SerializationFailure) when v does not serialize.
Outcome(v) == IF v = "nan" THEN SerializingResultErr ELSE OkValue(v)

\* ------------------------------------------------------------------ claims

\* C1: once a pull has returned an Err item, no later pull of the same
\* sequence returns another item, Ok or Err.
C1_NoItemAfterErr ==
    \A i, j \in Pulls : (i < j /\ IsErr(i)) => ~IsItem(j)

\* C2: after MapStream / FutureMapStream has yielded Err(SerializationFailure)
\* the underlying stream is never polled again.
C2_NoPollAfterSerErr ==
    \A i, j \in Pulls : (i < j /\ IsSerErr(i) /\ marker \in StreamShapes) => hist[j].sp = 0

\* C3: once a pull has returned end-of-sequence or a terminal error, every
\* later pull returns end-of-sequence.
C3_ExhaustionIdempotent ==
    \A i, j \in Pulls : (i < j /\ (IsEnd(i) \/ IsErr(i))) => IsEnd(j)

\* ------------------------------------------------- helpers for C4 .. C10
\* The pull in which the underlying future resolved happened before pull k.
ResolvedBefore(k) == \E j \in Pulls : j < k /\ hist[j].resolved
\* The outcome the spec prescribes for a value-shaped return (4.1).
ValueOutcome(m, r) ==
    IF m \in FallibleMarkers /\ ~r.ok THEN ErrResolverError(r.e) ELSE Outcome(r.v)
\* The items seen up to and including the first end-of-sequence.
OutputToEnd == OutputUpTo(IF Ends = {} THEN Len(hist) ELSE FirstEnd)
\* The items seen are Ok(serialize(item)) of the underlying items, in order,
\* and all of them once end-of-sequence has been returned.
InOrderNoLoss ==
    /\ Len(OutputToEnd) <= Len(ret.items)
    /\ \A i \in DOMAIN OutputToEnd : OutputToEnd[i] = OkValue(ret.items[i])
    /\ Ends # {} => Len(OutputToEnd) = Len(ret.items)
AllSerializable == \A i \in DOMAIN ret.items : ret.items[i] # "nan"
RECURSIVE SumFp(_), SumSp(_)
SumFp(n) == IF n = 0 THEN 0 ELSE hist[n].fp + SumFp(n - 1)
SumSp(n) == IF n = 0 THEN 0 ELSE hist[n].sp + SumSp(n - 1)

\* C4: in FutureMapStream, when the future resolves to a domain error e the
\* resolving pull yields Err(ResolverFailure(e)), the future slot is cleared,
\* the stream slot is never filled, no stream is polled, and every later
\* pull yields end-of-sequence: the sequence is exactly [Err(ResolverFailure(e))].
C4_FutureErrorIsWholeSequence ==
    (marker = FutureResultStreamMarker /\ ~ret.ok) =>
        /\ strPolls = 0
        /\ ~ad.stream
        /\ futDone => ~ad.fut
        /\ \A k \in Pulls :
              /\ hist[k].resolved => hist[k].res = ReadySome(ErrResolverError(ret.e))
              /\ (~hist[k].resolved /\ ~ResolvedBefore(k)) => hist[k].res = Pending
              /\ ResolvedBefore(k) => (hist[k].res = ReadyNone /\ hist[k].fp = 0)
        /\ futDone => Output = <<ErrResolverError(ret.e)>>

C4_Witness ==
    /\ marker = FutureResultStreamMarker /\ ~ret.ok
    /\ Len(hist) >= 4
    /\ hist[1].res = Pending
    /\ hist[2].res = ReadySome(ErrResolverError(ret.e))
    /\ hist[4].res = ReadyNone

\* C5: in FutureMapStream, the pull in which the future resolves to a stream
\* yields no outcome of its own: it stores the stream and polls it, and
\* returns the first item's outcome, end-of-sequence if the stream is empty,
\* or Pending if the stream is not ready; a future resolving to a stream of
\* serializable items yields exactly their Ok(serialize(.)), then ends.
C5_ResolveContinuesIntoStream ==
    (marker \in FutureMapStreamMarkers /\ ret.ok) =>
        /\ \A k \in Pulls :
              /\ hist[k].resolved =>
                    /\ hist[k].sp = 1
                    /\ ad.stream \/ pc = "dropped"
                    /\ \/ hist[k].res = Pending
                       \/ ret.items = <<>> /\ hist[k].res = ReadyNone
                       \/ ret.items # <<>> /\ hist[k].res = ReadySome(Outcome(ret.items[1]))
              /\ (~hist[k].resolved /\ ~ResolvedBefore(k)) =>
                    (hist[k].res = Pending /\ hist[k].sp = 0)
        /\ AllSerializable => InOrderNoLoss

C5_Witness ==
    /\ marker = FutureStreamMarker
    /\ ret.items = <<"a", "b">>
    /\ Len(hist) = 3
    /\ hist[1].resolved /\ hist[1].res = ReadySome(OkValue("a"))
    /\ hist[2].res = ReadySome(OkValue("b"))
    /\ hist[3].res = ReadyNone

\* C6: for a Stream-shape resolver whose stream emits serializable items,
\* under any interleaving of Pending, the output is one Ok(serialize(item))
\* per item, in emission order, none dropped, duplicated or reordered, then
\* end-of-sequence.
C6_StreamOrderPreserved ==
    (marker = StreamMarker /\ AllSerializable) => InOrderNoLoss

C6_Witness ==
    /\ marker = StreamMarker
    /\ ret.items = <<"a", "b", "a">>
    /\ \E i \in Pulls : hist[i].res = Pending /\ i < Len(hist)
    /\ Ends # {}
    /\ OutputToEnd = <<OkValue("a"), OkValue("b"), OkValue("a")>>

\* C7: a FallibleStream-shape resolver that returned Err(e) gives a MapStream
\* with the error slot set and no stream; the first pull yields
\* Err(ResolverFailure(e)), every later pull end-of-sequence, and no
\* underlying stream is ever polled.
C7_FallibleStreamError ==
    (marker = ResultStreamMarker /\ ~ret.ok) =>
        /\ (pc = "stream" /\ hist = <<>>) => ad.err = ErrResolverError(ret.e)
        /\ ~ad.stream
        /\ strPolls = 0
        /\ \A k \in Pulls :
              hist[k].res = IF k = 1 THEN ReadySome(ErrResolverError(ret.e)) ELSE ReadyNone
        /\ hist # <<>> => Output = <<ErrResolverError(ret.e)>>

C7_Witness ==
    /\ marker = ResultStreamMarker /\ ~ret.ok
    /\ Len(hist) >= 3
    /\ hist[1].res = ReadySome(ErrResolverError(ret.e))
    /\ hist[3].res = ReadyNone

\* C8: the single-value adapter never returns Pending and produces exactly
\* one outcome, then ends: Ok(serialize(v)) or Err(SerializationFailure) for
\* a plain value or Ok(v), Err(ResolverFailure(e)) for Err(e), in which case
\* serialization is not attempted.
C8_SingleValue ==
    (marker \in OnceReadyMarkers) =>
        /\ \A k \in Pulls :
              hist[k].res = IF k = 1 THEN ReadySome(ValueOutcome(marker, ret)) ELSE ReadyNone
        /\ futPolls = 0
        /\ ~ret.ok => serCalls = 0
        /\ (ret.ok /\ pc # "returned") => serCalls = 1

C8_Witness ==
    /\ marker = ResultMarker /\ ~ret.ok
    /\ Len(hist) >= 2
    /\ hist[1].res = ReadySome(ErrResolverError(ret.e))
    /\ hist[2].res = ReadyNone
    /\ serCalls = 0

\* C9: the future adapter returns Pending on every pull made while the
\* computation is pending, yields on the resolving pull the outcome the
\* single-value adapter yields for the resolved value (no serialization for
\* Err(e)), and afterwards yields end-of-sequence without polling the
\* computation again.
C9_FutureValue ==
    (marker \in OnceFutureMarkers) =>
        /\ \A k \in Pulls :
              IF ResolvedBefore(k)
              THEN hist[k].res = ReadyNone /\ hist[k].fp = 0
              ELSE /\ hist[k].fp = 1
                   /\ hist[k].res = IF hist[k].resolved
                                    THEN ReadySome(ValueOutcome(marker, ret))
                                    ELSE Pending
        /\ Len(Output) <= 1
        /\ ~ret.ok => serCalls = 0
        /\ serCalls <= 1

C9_Witness ==
    /\ marker \in OnceFutureMarkers
    /\ Len(hist) >= 4
    /\ hist[1].res = Pending
    /\ hist[2].res = ReadySome(ValueOutcome(marker, ret))
    /\ hist[3].res = ReadyNone
    /\ futPolls = 2

\* C10: the underlying future and stream are polled only inside a consumer
\* pull, at most once each per pull, nothing is polled before the first
\* pull, and once the consumer has dropped the adapter the poll counts never
\* increase.
C10_PerPull ==
    /\ \A k \in Pulls : hist[k].fp <= 1 /\ hist[k].sp <= 1
    /\ futPolls = SumFp(Len(hist))
    /\ strPolls = SumSp(Len(hist))
    /\ futPolls <= Len(hist) /\ strPolls <= Len(hist)

C10_AfterDrop ==
    /\ (futPolls' # futPolls \/ strPolls' # strPolls) => Len(hist') = Len(hist) + 1
    /\ pc = "dropped" => (futPolls' = futPolls /\ strPolls' = strPolls /\ pc' = "dropped")

C10_PassivePullDriven == []C10_PerPull /\ [][C10_AfterDrop]_vars

C10_Witness ==
    /\ pc = "dropped"
    /\ marker \in FutureMapStreamMarkers
    /\ Len(hist) >= 2
    /\ futPolls >= 1 /\ strPolls >= 1


\* C12: in MapStream and FutureMapStream, once the underlying stream has
\* reported end-of-stream the stream slot is cleared and the stream is never
\* polled again on a later pull.
C12_StreamReleasedAtEnd ==
    (marker \in StreamShapes) =>
        /\ (ended /\ pc = "stream") => ~ad.stream
        /\ \A i, j \in Pulls :
              (i < j /\ hist[i].sp > 0 /\ IsEnd(i)) => hist[j].sp = 0

\* C13: a FutureMapStream built by exec never holds a future and a stream at
\* once: the future slot is empty from the pull in which the future resolved,
\* the future is not polled again after it resolved, and the stream is not
\* polled, and no item seen, before the future has resolved.
C13_OneSlotAtATime ==
    (marker \in FutureMapStreamMarkers) =>
        /\ ~(ad.fut /\ ad.stream)
        /\ futDone => ~ad.fut
        /\ ad.stream => futDone
        /\ \A k \in Pulls :
              /\ ResolvedBefore(k) => hist[k].fp = 0
              /\ (hist[k].sp > 0 \/ (IsItem(k) /\ hist[k].res.item.tag = "Ok")) =>
                    (hist[k].resolved \/ ResolvedBefore(k))
              /\ (hist[k].resolved \/ ResolvedBefore(k)) => futDone

C13_Witness ==
    /\ marker \in FutureMapStreamMarkers
    /\ pc = "stream"
    /\ ~ad.fut /\ ad.stream
    /\ Len(hist) >= 3
    /\ hist[1].res = Pending /\ hist[1].fp = 1 /\ hist[1].sp = 0
    /\ hist[2].resolved /\ hist[2].sp = 1
    /\ hist[3].fp = 0 /\ hist[3].sp = 1


\* The number of items the adapter has yet to yield before its first
\* end-of-sequence: a primed error, then what the stream it holds, or the
\* stream its future resolves to, has left.
StillToYield ==
    (IF ad.err # NoItem THEN 1 ELSE 0)
    + (IF ad.stream THEN StreamRemaining
       ELSE IF ad.fut THEN (IF ret.ok THEN Len(ret.items) ELSE 1)
       ELSE 0)
\* size_hint() of the adapter, the underlying stream answering h.
AdapterSizeHint(h) ==
    IF marker \in MapStreamMarkers THEN MapStreamSizeHint(ad, h)
    ELSE FutureMapStreamSizeHint(ad, h)

\* C17: in every state of a MapStream / FutureMapStream whose underlying
\* stream reports a sound size_hint, the items the adapter will still yield,
\* a pending primed error included, are at least the reported lower bound
\* and at most the reported upper bound, if there is one.
C17_SizeHintSound ==
    (marker \in StreamShapes /\ pc = "stream" /\ Ends = {} /\ ~ended) =>
        \A h \in StreamSizeHints :
            /\ AdapterSizeHint(h).lo <= StillToYield
            /\ AdapterSizeHint(h).some => StillToYield <= AdapterSizeHint(h).hi


\* The outcomes an adapter yields up to its first end-of-sequence, as a
\* function of the shape and the resolver's return value alone.
OutcomesOf(m, r) ==
    IF m \notin StreamShapes THEN <<ValueOutcome(m, r)>>
    ELSE IF ~r.ok THEN <<ErrResolverError(r.e)>>
    ELSE [i \in 1 .. Len(r.items) |-> Outcome(r.items[i])]
\* Whatever the schedule of Pending so far, the outcomes seen are the first
\* ones of OutcomesOf, and all of them once end-of-sequence is returned.
C16_SameOutcomes ==
    /\ Len(OutputToEnd) <= Len(OutcomesOf(marker, ret))
    /\ \A i \in DOMAIN OutputToEnd : OutputToEnd[i] = OutcomesOf(marker, ret)[i]
    /\ Ends # {} => Len(OutputToEnd) = Len(OutcomesOf(marker, ret))
\* A pull that returns Pending leaves the stream position, the error slot,
\* the stored value and the items seen as they were.
C16_PendingConsumesNothing ==
    (Len(hist') = Len(hist) + 1 /\ hist'[Len(hist')].res = Pending) =>
        /\ pos' = pos
        /\ ad'.err = ad.err /\ ad'.ready = ad.ready
        /\ serCalls' = serCalls
        /\ ended' = ended

\* C16: the outcomes an adapter yields do not depend on how many Pending the
\* underlying future / stream returns, or where: for the same resolved value
\* and the same items every run yields the same outcomes, and a pull that
\* returns Pending consumes no item and no error.
C16_ScheduleIndependent == []C16_SameOutcomes /\ [][C16_PendingConsumesNothing]_vars

C16_Witness ==
    /\ marker = FutureStreamMarker
    /\ ret.items = <<"a", "b">>
    /\ Len(hist) = 5
    /\ hist[1].res = Pending /\ hist[1].fp = 1
    /\ hist[2].resolved /\ hist[2].res = ReadySome(OkValue("a"))
    /\ hist[3].res = Pending /\ hist[3].sp = 1
    /\ hist[4].res = ReadySome(OkValue("b"))
    /\ hist[5].res = ReadyNone


\* The number of items the adapter yielded before its first end-of-sequence
\* is one for the value and future shapes, and the number of items of the
\* underlying stream for a stream shape whose items all serialize.
C15_ItemCount ==
    Ends # {} =>
        /\ marker \notin StreamShapes => Len(OutputToEnd) = 1
        /\ (marker \in StreamShapes /\ ret.ok /\ AllSerializable) =>
              Len(OutputToEnd) = Len(ret.items)

\* C15: if the consumer keeps pulling, the future eventually resolves and the
\* finite stream eventually produces each item and its end, every adapter
\* eventually returns end-of-sequence, after exactly one item for the value
\* and future shapes and after as many items as the stream emitted for a
\* stream shape whose items all serialize.
C15_Terminates == <>(Ends # {}) /\ []C15_ItemCount

C15_Witness ==
    /\ marker = FutureResultStreamMarker /\ ret.ok
    /\ Len(ret.items) = 3 /\ AllSerializable
    /\ Cardinality(PendingPulls) >= 2
    /\ Ends # {}
    /\ Len(OutputToEnd) = 3


\* A return type with one capability at each level: it is serializable, or a
\* Stream, or a Result, or a Future, and not two of these at once, and so
\* are what its Result holds and what its Future outputs.
Count(b) == IF b THEN 1 ELSE 0
PayloadSingle(p) == Count(p.ser) + Count(p.str # "no") = 1
OutputSingle(o) ==
    /\ Count(o.ser) + Count(o.str # "no") + Count(o.res) = 1
    /\ o.res => PayloadSingle(o.of)
SingleCapability(t) ==
    /\ Count(t.ser) + Count(t.str # "no") + Count(t.res) + Count(t.fut) = 1
    /\ t.res => PayloadSingle(t.of)
    /\ t.fut => OutputSingle(t.out)

\* C11: every supported return type satisfies the where-clause of exactly
\* one of the eight impls, and no return type satisfies two of them.
C11_ExactlyOneImpl ==
    /\ pc = "resolved" => Cardinality(DOMAIN sel) = 1
    /\ pc = "rejected" => \A m \in Markers : rtype # ShapeType(m)

\* C11, amended: each of the eight return types of spec section 6 satisfies
\* the where-clause of exactly one impl, its own, none of them is rejected,
\* and a return type with one capability at each level satisfies at most one
\* impl; only a type with two capabilities at once satisfies two.
C11_CanonicalUnambiguous ==
    /\ pc = "resolved" =>
          /\ marker \in DOMAIN sel
          /\ \A m \in Markers : rtype = ShapeType(m) => DOMAIN sel = {m}
          /\ SingleCapability(rtype) => Cardinality(DOMAIN sel) = 1
          /\ Cardinality(DOMAIN sel) >= 2 => ~SingleCapability(rtype)
    /\ pc = "rejected" => \A m \in Markers : rtype # ShapeType(m)

C11_Witness ==
    /\ pc = "resolved"
    /\ rtype = ShapeType(FutureResultStreamMarker)
    /\ SingleCapability(rtype)
    /\ DOMAIN sel = {FutureResultStreamMarker}

\* C18: the Type tag of each shape is one of the two marker types: the four
\* single-item shapes are tagged FutureMarkerType and the four stream shapes
\* all carry StreamMarkerType.
C18_TypeTags ==
    \A m \in DOMAIN sel :
        sel[m] = IF m \in StreamShapes THEN StreamMarkerType ELSE FutureMarkerType

====
